---- MODULE Spec2Model ----
(***************************************************************************)
(* Model of the shazamq-operator reconcile loop (src/src/reconciler.rs,    *)
(* src/src/main.rs, src/src/crd.rs): the manifest synthesizer, the status  *)
(* projection, the fixed-order apply sequence of one reconcile cycle, and  *)
(* the harness and platform that surround it.                              *)
(***************************************************************************)
EXTENDS Integers, Sequences, FiniteSets, TLC

(***************************************************************************)
(* Bounds of the model.                                                    *)
(***************************************************************************)
\* largest spec.replicas an author writes
MaxReplicas == 2
\* external writes to subordinate objects explored per behaviour
MaxExternal == 1

(***************************************************************************)
(* Program constants.                                                      *)
(***************************************************************************)
RequeueOk == 300
RequeueErr == 60
KafkaPort == 9092
MetricsPort == 9090

(***************************************************************************)
(* Option<T> is a sequence of length at most one; BTreeMap<String,String>  *)
(* is a function from keys to values.                                      *)
(***************************************************************************)
None == <<>>
Some(v) == <<v>>
IsSome(o) == Len(o) > 0
Unwrap(o) == o[1]

\* BTreeMap::extend: every entry of u is inserted, replacing an equal key
Extend(m, u) ==
  [k \in (DOMAIN m) \cup (DOMAIN u) |-> IF k \in DOMAIN u THEN u[k] ELSE m[k]]

Namespace == "default"

(***************************************************************************)
(* crd.rs: the spec values explored.                                       *)
(***************************************************************************)
default_version == "0.1.1-rc1"
default_image == "shazamq/shazamq"
default_pull_policy == "IfNotPresent"

MirrorSource1 ==
  [name |-> "src1", bootstrap_servers |-> "b:9092",
   security_protocol |-> "PLAINTEXT", consumer_group_id |-> "g1",
   topic_whitelist |-> <<"t1", "t2">>]
MirrorSource2 ==
  [name |-> "src2", bootstrap_servers |-> "c:9092",
   security_protocol |-> "SSL", consumer_group_id |-> "g2",
   topic_whitelist |-> <<>>]

S3Config1 == [bucket |-> "bkt", region |-> "eu", prefix |-> "p/"]

\* the options of each optional field
StorageOptions ==
  {None,
   Some([segment_bytes |-> Some(1024), retention_hours |-> None]),
   Some([segment_bytes |-> None, retention_hours |-> Some(24)])}
TieredOptions ==
  {None,
   Some([enabled |-> FALSE, provider |-> "s3", s3 |-> Some(S3Config1)]),
   Some([enabled |-> TRUE, provider |-> "s3", s3 |-> None]),
   Some([enabled |-> TRUE, provider |-> "s3", s3 |-> Some(S3Config1)])}
MirrorOptions ==
  {None,
   Some([enabled |-> FALSE, sources |-> <<MirrorSource1>>]),
   Some([enabled |-> TRUE, sources |-> <<>>]),
   Some([enabled |-> TRUE, sources |-> <<MirrorSource1, MirrorSource2>>])}
PodLabelOptions ==
  {None,
   Some([k \in {"team"} |-> "data"]),
   Some([k \in {"app"} |-> "other"]),
   Some([k \in {"shazamq.io/cluster", "team"} |->
           IF k = "team" THEN "data" ELSE "elsewhere"])}
ServiceOptions ==
  {None,
   Some([service_type |-> "NodePort", port |-> 19092, metrics_port |-> 19090])}

ShazamqClusterSpec(n, st, ti, mi, pl, sv) ==
  [replicas |-> n,
   version |-> default_version,
   image |-> default_image,
   image_pull_policy |-> default_pull_policy,
   storage |-> st,
   tiered_storage |-> ti,
   mirror |-> mi,
   pod_annotations |-> None,
   pod_labels |-> pl,
   node_selector |-> None,
   service |-> sv]

\* every spec of the option sets: the inputs of the synthesizer
AllSpecs ==
  {ShazamqClusterSpec(n, st, ti, mi, pl, sv) :
     n \in 0..MaxReplicas, st \in StorageOptions, ti \in TieredOptions,
     mi \in MirrorOptions, pl \in PodLabelOptions, sv \in ServiceOptions}

\* the specs an author switches between while the engine runs: a plain
\* cluster of any size, and a full-featured one
PlainSpec(n) == ShazamqClusterSpec(n, None, None, None, None, None)
FullSpec(n) ==
  ShazamqClusterSpec(n,
    Some([segment_bytes |-> Some(1024), retention_hours |-> None]),
    Some([enabled |-> TRUE, provider |-> "s3", s3 |-> Some(S3Config1)]),
    Some([enabled |-> TRUE, sources |-> <<MirrorSource1, MirrorSource2>>]),
    Some([k \in {"app"} |-> "other"]),
    Some([service_type |-> "NodePort", port |-> 19092, metrics_port |-> 19090]))
Specs == {PlainSpec(n) : n \in 0..MaxReplicas} \cup {FullSpec(MaxReplicas)}

(***************************************************************************)
(* reconciler.rs: the manifest synthesizer.  The config text is the        *)
(* sequence of its lines ("" is an empty line); a line is built with the   *)
(* same concatenations the code pushes.                                    *)
(***************************************************************************)
Quote(s) == "\"" \o s \o "\""

\* reconciler.rs 437-444: the bracketed topic list of one source
RECURSIVE JoinTopics(_, _)
JoinTopics(topics, i) ==
  IF i > Len(topics) THEN ""
  ELSE (IF i > 1 THEN ", " ELSE "") \o Quote(topics[i]) \o JoinTopics(topics, i + 1)

\* reconciler.rs 431-444: one [[mirror.sources]] block
MirrorSourceBlock(source) ==
  << "[[mirror.sources]]",
     "name = " \o Quote(source.name),
     "bootstrap_servers = " \o Quote(source.bootstrap_servers),
     "security_protocol = " \o Quote(source.security_protocol),
     "consumer_group_id = " \o Quote(source.consumer_group_id),
     "topic_whitelist = [" \o JoinTopics(source.topic_whitelist, 1) \o "]",
     "" >>

\* reconciler.rs 430-445: the blocks of all sources, in list order
RECURSIVE MirrorSourceBlocks(_, _)
MirrorSourceBlocks(sources, i) ==
  IF i > Len(sources) THEN <<>>
  ELSE MirrorSourceBlock(sources[i]) \o MirrorSourceBlocks(sources, i + 1)

BrokerSection ==
  << "[broker]", "host = " \o Quote("0.0.0.0"), "port = " \o ToString(KafkaPort),
     "data_dir = " \o Quote("/data/shazamq"), "" >>

StorageSection(spec) ==
  << "[storage]" >>
  \o (IF IsSome(spec.storage) /\ IsSome(Unwrap(spec.storage).segment_bytes)
        THEN << "segment_bytes = " \o ToString(Unwrap(Unwrap(spec.storage).segment_bytes)) >>
        ELSE <<>>)
  \o (IF IsSome(spec.storage) /\ IsSome(Unwrap(spec.storage).retention_hours)
        THEN << "retention_hours = " \o ToString(Unwrap(Unwrap(spec.storage).retention_hours)) >>
        ELSE <<>>)
  \o << "" >>

MetricsSection ==
  << "[metrics]", "enabled = true", "host = " \o Quote("0.0.0.0"),
     "port = " \o ToString(MetricsPort), "" >>

\* TieredSection emitted whenever tieredStorage is present
TieredSection_when_present(spec) ==
  IF IsSome(spec.tiered_storage)
    THEN LET tiered == Unwrap(spec.tiered_storage) IN
         << "[tiered_storage]", "enabled = true", "provider = " \o Quote(tiered.provider) >>
         \o (IF IsSome(tiered.s3)
               THEN << "", "[tiered_storage.s3]",
                       "bucket = " \o Quote(Unwrap(tiered.s3).bucket),
                       "region = " \o Quote(Unwrap(tiered.s3).region),
                       "prefix = " \o Quote(Unwrap(tiered.s3).prefix) >>
               ELSE <<>>)
         \o << "" >>
    ELSE <<>>

TieredSection(spec) ==
  IF IsSome(spec.tiered_storage) /\ Unwrap(spec.tiered_storage).enabled
    THEN LET tiered == Unwrap(spec.tiered_storage) IN
         << "[tiered_storage]", "enabled = true", "provider = " \o Quote(tiered.provider) >>
         \o (IF IsSome(tiered.s3)
               THEN << "", "[tiered_storage.s3]",
                       "bucket = " \o Quote(Unwrap(tiered.s3).bucket),
                       "region = " \o Quote(Unwrap(tiered.s3).region),
                       "prefix = " \o Quote(Unwrap(tiered.s3).prefix) >>
               ELSE <<>>)
         \o << "" >>
    ELSE <<>>

MirrorSection(spec) ==
  IF IsSome(spec.mirror) /\ Unwrap(spec.mirror).enabled
    THEN << "[mirror]", "enabled = true", "" >>
         \o MirrorSourceBlocks(Unwrap(spec.mirror).sources, 1)
    ELSE <<>>

generate_config_toml(spec) ==
  BrokerSection \o StorageSection(spec) \o MetricsSection
    \o TieredSection(spec) \o MirrorSection(spec)

common_labels(name) ==
  [k \in {"app", "shazamq.io/cluster", "managed-by"} |->
     IF k = "app" THEN "shazamq"
     ELSE IF k = "shazamq.io/cluster" THEN name
     ELSE "shazamq-operator"]

selector_labels(name) ==
  [k \in {"app", "shazamq.io/cluster"} |->
     IF k = "app" THEN "shazamq" ELSE name]

\* reconciler.rs 70-85: the config artifact
ConfigMapOf(spec, name) ==
  [kind |-> "ConfigMap",
   name |-> name \o "-config",
   namespace |-> Namespace,
   labels |-> common_labels(name),
   data |-> [k \in {"config.toml"} |-> generate_config_toml(spec)]]

\* reconciler.rs 105-139: the client endpoint
ServiceOf(spec, name) ==
  LET service_config == spec.service
      service_type == IF IsSome(service_config)
                        THEN Unwrap(service_config).service_type ELSE "ClusterIP"
      port == IF IsSome(service_config) THEN Unwrap(service_config).port ELSE KafkaPort
      metrics_port == IF IsSome(service_config)
                        THEN Unwrap(service_config).metrics_port ELSE MetricsPort
  IN [kind |-> "Service",
      name |-> name,
      namespace |-> Namespace,
      labels |-> common_labels(name),
      spec |-> [type_ |-> Some(service_type),
                cluster_ip |-> None,
                selector |-> selector_labels(name),
                ports |-> << [name |-> "kafka", port |-> port, target_port |-> Some(KafkaPort)],
                             [name |-> "metrics", port |-> metrics_port,
                              target_port |-> Some(MetricsPort)] >>]]

\* reconciler.rs 159-179: the discovery endpoint
HeadlessServiceOf(spec, name) ==
  [kind |-> "Service",
   name |-> name \o "-headless",
   namespace |-> Namespace,
   labels |-> common_labels(name),
   spec |-> [type_ |-> None,
             cluster_ip |-> Some("None"),
             selector |-> selector_labels(name),
             ports |-> << [name |-> "kafka", port |-> KafkaPort, target_port |-> None] >>]]

\* EnvVars with the mirror flag set whenever mirror is present
EnvVars_mirror_when_present(spec) ==
  << [name |-> "RUST_LOG", value |-> "info"] >>
  \o (IF IsSome(spec.mirror)
        THEN << [name |-> "SHAZAMQ_MIRROR_ENABLED", value |-> "true"] >>
        ELSE <<>>)

\* reconciler.rs 204-221: the container environment
EnvVars(spec) ==
  << [name |-> "RUST_LOG", value |-> "info"] >>
  \o (IF IsSome(spec.mirror) /\ Unwrap(spec.mirror).enabled
        THEN << [name |-> "SHAZAMQ_MIRROR_ENABLED", value |-> "true"] >>
        ELSE <<>>)

\* reconciler.rs 259-262: the labels of the pod template
PodLabels(spec, name) ==
  IF IsSome(spec.pod_labels)
    THEN Extend(selector_labels(name), Unwrap(spec.pod_labels))
    ELSE selector_labels(name)

\* reconciler.rs 199-329: the replica group
StatefulSetOf(spec, name) ==
  [kind |-> "StatefulSet",
   name |-> name,
   namespace |-> Namespace,
   labels |-> common_labels(name),
   spec |-> [replicas |-> spec.replicas,
             selector |-> selector_labels(name),
             service_name |-> name \o "-headless",
             template |->
               [labels |-> PodLabels(spec, name),
                annotations |-> spec.pod_annotations,
                node_selector |-> spec.node_selector,
                container |->
                  [name |-> "shazamq",
                   image |-> spec.image \o ":" \o spec.version,
                   image_pull_policy |-> spec.image_pull_policy,
                   ports |-> << [name |-> "kafka", container_port |-> KafkaPort],
                                [name |-> "metrics", container_port |-> MetricsPort] >>,
                   env |-> EnvVars(spec),
                   volume_mounts |-> << [name |-> "data", mount_path |-> "/data/shazamq"],
                                        [name |-> "config", mount_path |-> "/etc/shazamq"] >>,
                   args |-> << "--config", "/etc/shazamq/config.toml" >>],
                volumes |-> << [name |-> "config", config_map |-> name \o "-config"] >>],
             volume_claim_templates |->
               << [name |-> "data", access_modes |-> << "ReadWriteOnce" >>,
                   storage |-> "100Gi"] >>]]

\* Phase with the second test on the spec's count instead of the ready count
Phase_tests_replicas(replicas, ready_replicas) ==
  IF ready_replicas = replicas THEN "Running"
  ELSE IF replicas > 0 THEN "Updating"
  ELSE "Creating"

\* reconciler.rs 353-370: the status projection
Phase(replicas, ready_replicas) ==
  IF ready_replicas = replicas THEN "Running"
  ELSE IF ready_replicas > 0 THEN "Updating"
  ELSE "Creating"

ShazamqClusterStatus(replicas, ready_replicas) ==
  [phase |-> Some(Phase(replicas, ready_replicas)),
   replicas |-> Some(replicas),
   ready_replicas |-> Some(ready_replicas),
   conditions |-> None,
   brokers |-> None]

(***************************************************************************)
(* The platform: the live objects, keyed by kind and name.                 *)
(***************************************************************************)
\* the resource the harness watches in Spec, and every resource name modelled
Resources == {"sq"}
Names == {"sq", "sq-headless"}

ConfigMapKey(name) == << "ConfigMap", name \o "-config" >>
ServiceKey(name) == << "Service", name >>
HeadlessServiceKey(name) == << "Service", name \o "-headless" >>
StatefulSetKey(name) == << "StatefulSet", name >>

SubordinateKeys(name) ==
  {ConfigMapKey(name), ServiceKey(name), HeadlessServiceKey(name), StatefulSetKey(name)}
Keys == UNION {SubordinateKeys(n) : n \in Names}

Absent == [kind |-> "absent"]

\* ApplyPatch as a create: an object that exists is left as it is
ApplyPatch_create_only(objects, name, obj) ==
  IF objects[<< obj.kind, name >>] = Absent
    THEN [objects EXCEPT ![<< obj.kind, name >>] = obj]
    ELSE objects

\* Api::patch with Patch::Apply: the object of that kind and name becomes the
\* applied descriptor
ApplyPatch(objects, name, obj) == [objects EXCEPT ![<< obj.kind, name >>] = obj]

\* what an external actor leaves when it edits a live object
ExternalEditOf(obj) ==
  IF obj.kind = "StatefulSet"
    THEN [obj EXCEPT !.spec.replicas = (obj.spec.replicas + 1) % (MaxReplicas + 1)]
  ELSE IF obj.kind = "ConfigMap"
    THEN [obj EXCEPT !.data = [k \in {"config.toml"} |-> << "# edited" >>]]
  ELSE [obj EXCEPT !.spec.type_ = Some("LoadBalancer")]

VARIABLES
  cr,          \* the live ShazamqCluster resources: spec and status
  store,       \* the live subordinate objects
  sts_status,  \* the status the platform reports on each StatefulSet
  pc,          \* where the reconcile of each resource stands
  cluster,     \* the object delivered to the running reconcile
  ready,       \* ready_replicas read by update_status
  ops,         \* the platform operations the running cycle has issued
  result,      \* what reconcile returned
  action,      \* the requeue directives the harness got for the cycle
  last,        \* how the previous cycle of each resource ended
  touched,     \* objects an external actor wrote after the engine's last apply
  externals,   \* external writes so far
  first        \* what an observer saw after a complete cycle

vars == << cr, store, sts_status, pc, cluster, ready, ops, result, action, last,
           touched, externals, first >>

InFlight == {"configmap", "service", "headless_service", "statefulset",
             "get_statefulset", "patch_status"}

Op(verb, kind, name, ok) == [verb |-> verb, kind |-> kind, name |-> name, ok |-> ok]

Init ==
  /\ cr \in [Names -> {[spec |-> s, status |-> None] : s \in Specs}]
  /\ \A n \in Names \ Resources : cr[n].spec = PlainSpec(0)
  /\ store = [k \in Keys |-> Absent]
  /\ sts_status = [n \in Names |-> None]
  /\ pc = [n \in Names |-> "idle"]
  /\ cluster = [n \in Names |-> None]
  /\ ready = [n \in Names |-> None]
  /\ ops = [n \in Names |-> <<>>]
  /\ result = [n \in Names |-> "none"]
  /\ action = [n \in Names |-> <<>>]
  /\ last = [n \in Names |-> "Complete"]
  /\ touched = {}
  /\ externals = 0
  /\ first = [n \in Names |-> None]

\* the subordinate applies of the running cycle that were acknowledged
Applied(r) == Cardinality({i \in 1..Len(ops[r]) : ops[r][i].verb = "apply" /\ ops[r][i].ok})

(***************************************************************************)
(* main.rs 56-75: the harness hands the resource to reconcile.             *)
(***************************************************************************)
Deliver(r) ==
  /\ pc[r] = "idle"
  /\ cluster' = [cluster EXCEPT ![r] = Some([name |-> r, spec |-> cr[r].spec])]
  /\ pc' = [pc EXCEPT ![r] = "configmap"]
  /\ UNCHANGED << first, cr, store, sts_status, ready, ops, result, action, last,
                  touched, externals >>

\* a step of reconcile ends with `?`: an error returns it at once
Fails(r, op) ==
  /\ ops' = [ops EXCEPT ![r] = Append(@, op)]
  /\ result' = [result EXCEPT ![r] = "Err"]
  /\ pc' = [pc EXCEPT ![r] = "returned"]
  /\ UNCHANGED << first, cr, store, sts_status, cluster, ready, action, last,
                  touched, externals >>

\* Applies that deletes a replica group applied with size 0
Applies_deletes_empty_group(r, name, obj, next) ==
  /\ store' = IF obj.kind = "StatefulSet" /\ obj.spec.replicas = 0
                THEN [store EXCEPT ![<< obj.kind, name >>] = Absent]
                ELSE ApplyPatch(store, name, obj)
  /\ sts_status' = IF obj.kind = "StatefulSet" /\ store[<< obj.kind, name >>] = Absent
                     THEN [sts_status EXCEPT ![name] = None]
                     ELSE sts_status
  /\ ops' = [ops EXCEPT ![r] = Append(@, Op("apply", obj.kind, name, TRUE))]
  /\ touched' = touched \ { << obj.kind, name >> }
  /\ pc' = [pc EXCEPT ![r] = next]
  /\ UNCHANGED << first, cr, cluster, ready, result, action, last, externals >>

\* an acknowledged apply of a subordinate object
Applies(r, name, obj, next) ==
  /\ store' = ApplyPatch(store, name, obj)
  /\ sts_status' = IF obj.kind = "StatefulSet" /\ store[<< obj.kind, name >>] = Absent
                     THEN [sts_status EXCEPT ![name] = None]
                     ELSE sts_status
  /\ ops' = [ops EXCEPT ![r] = Append(@, Op("apply", obj.kind, name, TRUE))]
  /\ touched' = touched \ { << obj.kind, name >> }
  /\ pc' = [pc EXCEPT ![r] = next]
  /\ UNCHANGED << first, cr, cluster, ready, result, action, last, externals >>

\* reconcile_configmap that leaves an existing ConfigMap alone
reconcile_configmap_keeps_existing(r) ==
  /\ pc[r] = "configmap"
  /\ LET c == Unwrap(cluster[r])
         configmap == IF store[ConfigMapKey(c.name)] = Absent
                        THEN ConfigMapOf(c.spec, c.name)
                        ELSE store[ConfigMapKey(c.name)]
     IN \/ Applies(r, c.name \o "-config", configmap, "service")
        \/ Fails(r, Op("apply", "ConfigMap", c.name \o "-config", FALSE))

\* reconciler.rs 44, 62-95
reconcile_configmap(r) ==
  /\ pc[r] = "configmap"
  /\ LET c == Unwrap(cluster[r])
         configmap == ConfigMapOf(c.spec, c.name)
     IN \/ Applies(r, c.name \o "-config", configmap, "service")
        \/ Fails(r, Op("apply", "ConfigMap", c.name \o "-config", FALSE))

\* reconcile_service with the replica group applied right after it
reconcile_service_reordered(r) ==
  /\ pc[r] = "service"
  /\ LET c == Unwrap(cluster[r])
         service == ServiceOf(c.spec, c.name)
     IN \/ Applies(r, c.name, service, "statefulset")
        \/ Fails(r, Op("apply", "Service", c.name, FALSE))

\* reconciler.rs 47, 97-149
reconcile_service(r) ==
  /\ pc[r] = "service"
  /\ LET c == Unwrap(cluster[r])
         service == ServiceOf(c.spec, c.name)
     IN \/ Applies(r, c.name, service, "headless_service")
        \/ Fails(r, Op("apply", "Service", c.name, FALSE))

\* reconcile_headless_service that applies under the resource's own name
reconcile_headless_service_unsuffixed(r) ==
  /\ pc[r] = "headless_service"
  /\ LET c == Unwrap(cluster[r])
         service == [HeadlessServiceOf(c.spec, c.name) EXCEPT !.name = c.name]
     IN \/ Applies(r, c.name, service, "statefulset")
        \/ Fails(r, Op("apply", "Service", c.name, FALSE))

\* reconciler.rs 50, 151-189
reconcile_headless_service(r) ==
  /\ pc[r] = "headless_service"
  /\ LET c == Unwrap(cluster[r])
         service == HeadlessServiceOf(c.spec, c.name)
     IN \/ Applies(r, c.name \o "-headless", service, "statefulset")
        \/ Fails(r, Op("apply", "Service", c.name \o "-headless", FALSE))

\* reconcile_statefulset with its error dropped instead of returned
reconcile_statefulset_error_dropped(r) ==
  /\ pc[r] = "statefulset"
  /\ LET c == Unwrap(cluster[r])
         statefulset == StatefulSetOf(c.spec, c.name)
     IN \/ Applies(r, c.name, statefulset, "get_statefulset")
        \/ /\ ops' = [ops EXCEPT ![r] = Append(@, Op("apply", "StatefulSet", c.name, FALSE))]
           /\ pc' = [pc EXCEPT ![r] = "get_statefulset"]
           /\ UNCHANGED << first, cr, store, sts_status, cluster, ready, result, action,
                           last, touched, externals >>

\* reconciler.rs 53, 191-339
reconcile_statefulset(r) ==
  /\ pc[r] = "statefulset"
  /\ LET c == Unwrap(cluster[r])
         statefulset == StatefulSetOf(c.spec, c.name)
     IN \/ Applies(r, c.name, statefulset, "get_statefulset")
        \/ Fails(r, Op("apply", "StatefulSet", c.name, FALSE))

\* reconciler.rs 353: sts.status.and_then(|s| s.ready_replicas).unwrap_or(0)
ReadyReplicasOf(status) ==
  IF IsSome(status) /\ IsSome(Unwrap(status).ready_replicas)
    THEN Unwrap(Unwrap(status).ready_replicas)
    ELSE 0

\* update_status_get that takes a failed read as a group with no ready pod
update_status_get_error_defaulted(r) ==
  /\ pc[r] = "get_statefulset"
  /\ LET c == Unwrap(cluster[r])
     IN \/ /\ store[StatefulSetKey(c.name)] # Absent
           /\ ready' = [ready EXCEPT ![r] = Some(ReadyReplicasOf(sts_status[c.name]))]
           /\ ops' = [ops EXCEPT ![r] = Append(@, Op("get", "StatefulSet", c.name, TRUE))]
           /\ pc' = [pc EXCEPT ![r] = "patch_status"]
           /\ UNCHANGED << first, cr, store, sts_status, cluster, result, action, last,
                           touched, externals >>
        \/ /\ ready' = [ready EXCEPT ![r] = Some(0)]
           /\ ops' = [ops EXCEPT ![r] = Append(@, Op("get", "StatefulSet", c.name, FALSE))]
           /\ pc' = [pc EXCEPT ![r] = "patch_status"]
           /\ UNCHANGED << first, cr, store, sts_status, cluster, result, action, last,
                           touched, externals >>

\* reconciler.rs 56, 349-353: update_status reads the StatefulSet
update_status_get(r) ==
  /\ pc[r] = "get_statefulset"
  /\ LET c == Unwrap(cluster[r])
     IN \/ /\ store[StatefulSetKey(c.name)] # Absent
           /\ ready' = [ready EXCEPT ![r] = Some(ReadyReplicasOf(sts_status[c.name]))]
           /\ ops' = [ops EXCEPT ![r] = Append(@, Op("get", "StatefulSet", c.name, TRUE))]
           /\ pc' = [pc EXCEPT ![r] = "patch_status"]
           /\ UNCHANGED << first, cr, store, sts_status, cluster, result, action, last,
                           touched, externals >>
        \/ Fails(r, Op("get", "StatefulSet", c.name, FALSE))

\* update_status_patch with a phase that remembers an earlier status
update_status_patch_hysteresis(r) ==
  /\ pc[r] = "patch_status"
  /\ LET c == Unwrap(cluster[r])
         status == ShazamqClusterStatus(c.spec.replicas, Unwrap(ready[r]))
         phase == IF IsSome(cr[c.name].status) /\ Unwrap(status.phase) = "Creating"
                    THEN Some("Updating") ELSE status.phase
     IN \/ /\ cr' = [cr EXCEPT ![c.name].status = Some([status EXCEPT !.phase = phase])]
           /\ ops' = [ops EXCEPT ![r] =
                        Append(@, Op("patch_status", "ShazamqCluster", c.name, TRUE))]
           /\ result' = [result EXCEPT ![r] = "Ok"]
           /\ action' = [action EXCEPT ![r] = Append(@, RequeueOk)]
           /\ pc' = [pc EXCEPT ![r] = "done"]
           /\ UNCHANGED << first, store, sts_status, cluster, ready, last, touched,
                           externals >>
        \/ Fails(r, Op("patch_status", "ShazamqCluster", c.name, FALSE))

\* update_status_patch that takes replicas from the live resource
update_status_patch_live_replicas(r) ==
  /\ pc[r] = "patch_status"
  /\ LET c == Unwrap(cluster[r])
         status == ShazamqClusterStatus(cr[c.name].spec.replicas, Unwrap(ready[r]))
     IN \/ /\ cr' = [cr EXCEPT ![c.name].status = Some(status)]
           /\ ops' = [ops EXCEPT ![r] =
                        Append(@, Op("patch_status", "ShazamqCluster", c.name, TRUE))]
           /\ result' = [result EXCEPT ![r] = "Ok"]
           /\ action' = [action EXCEPT ![r] = Append(@, RequeueOk)]
           /\ pc' = [pc EXCEPT ![r] = "done"]
           /\ UNCHANGED << first, store, sts_status, cluster, ready, last, touched, externals >>
        \/ Fails(r, Op("patch_status", "ShazamqCluster", c.name, FALSE))

\* update_status_patch that writes the whole resource, spec included
update_status_patch_whole_object(r) ==
  /\ pc[r] = "patch_status"
  /\ LET c == Unwrap(cluster[r])
         status == ShazamqClusterStatus(c.spec.replicas, Unwrap(ready[r]))
     IN \/ /\ cr' = [cr EXCEPT ![c.name] = [spec |-> c.spec, status |-> Some(status)]]
           /\ ops' = [ops EXCEPT ![r] =
                        Append(@, Op("patch_status", "ShazamqCluster", c.name, TRUE))]
           /\ result' = [result EXCEPT ![r] = "Ok"]
           /\ action' = [action EXCEPT ![r] = Append(@, RequeueOk)]
           /\ pc' = [pc EXCEPT ![r] = "done"]
           /\ UNCHANGED << first, store, sts_status, cluster, ready, last, touched, externals >>
        \/ Fails(r, Op("patch_status", "ShazamqCluster", c.name, FALSE))

\* reconciler.rs 354-382 and 59: update_status patches the status
\* sub-resource, and reconcile returns Ok(Action::requeue(300 s))
update_status_patch(r) ==
  /\ pc[r] = "patch_status"
  /\ LET c == Unwrap(cluster[r])
         status == ShazamqClusterStatus(c.spec.replicas, Unwrap(ready[r]))
     IN \/ /\ cr' = [cr EXCEPT ![c.name].status = Some(status)]
           /\ ops' = [ops EXCEPT ![r] =
                        Append(@, Op("patch_status", "ShazamqCluster", c.name, TRUE))]
           /\ result' = [result EXCEPT ![r] = "Ok"]
           /\ action' = [action EXCEPT ![r] = Append(@, RequeueOk)]
           /\ pc' = [pc EXCEPT ![r] = "done"]
           /\ UNCHANGED << first, store, sts_status, cluster, ready, last, touched, externals >>
        \/ Fails(r, Op("patch_status", "ShazamqCluster", c.name, FALSE))

\* error_policy answering with the interval of a successful cycle
error_policy_long_interval(r) ==
  /\ pc[r] = "returned"
  /\ result[r] = "Err"
  /\ action' = [action EXCEPT ![r] = Append(@, RequeueOk)]
  /\ pc' = [pc EXCEPT ![r] = "done"]
  /\ UNCHANGED << first, cr, store, sts_status, cluster, ready, ops, result, last,
                  touched, externals >>

\* error_policy answering Action::await_change(): no timer, the resource
\* waits for a change
error_policy_await_change(r) ==
  /\ pc[r] = "returned"
  /\ result[r] = "Err"
  /\ pc' = [pc EXCEPT ![r] = "await_change"]
  /\ UNCHANGED << first, cr, store, sts_status, cluster, ready, ops, result, action,
                  last, touched, externals >>

\* main.rs 65-73: the error policy of the controller
error_policy(r) ==
  /\ pc[r] = "returned"
  /\ result[r] = "Err"
  /\ action' = [action EXCEPT ![r] = Append(@, RequeueErr)]
  /\ pc' = [pc EXCEPT ![r] = "done"]
  /\ UNCHANGED << first, cr, store, sts_status, cluster, ready, ops, result, last,
                  touched, externals >>

\* the cycle's frame is dropped
Forget(r, outcome) ==
  /\ last' = [last EXCEPT ![r] = outcome]
  /\ pc' = [pc EXCEPT ![r] = "idle"]
  /\ cluster' = [cluster EXCEPT ![r] = None]
  /\ ready' = [ready EXCEPT ![r] = None]
  /\ ops' = [ops EXCEPT ![r] = <<>>]
  /\ result' = [result EXCEPT ![r] = "none"]
  /\ action' = [action EXCEPT ![r] = <<>>]
  /\ UNCHANGED << first, cr, store, sts_status, touched, externals >>

\* main.rs 76-90: the harness takes the directive and will call again
Requeue(r) ==
  /\ pc[r] = "done"
  /\ Forget(r, IF result[r] = "Err" /\ Applied(r) > 0 THEN "Interrupted" ELSE "Complete")

\* the harness drops an in-flight reconcile (shutdown)
Cancel(r) ==
  /\ pc[r] \in InFlight
  /\ Forget(r, IF Applied(r) > 0 THEN "Interrupted" ELSE "Complete")

(***************************************************************************)
(* The environment: the spec author, the platform's StatefulSet controller *)
(* and other writers of the subordinate objects.                           *)
(***************************************************************************)
EditSpec(r) ==
  /\ \E s \in Specs \ {cr[r].spec} : cr' = [cr EXCEPT ![r].spec = s]
  /\ UNCHANGED << first, store, sts_status, pc, cluster, ready, ops, result, action, last,
                  touched, externals >>

Max(a, b) == IF a >= b THEN a ELSE b

\* the ready count moves within the size of the group; a count left from a
\* larger size stays until the platform has shrunk the group; a count of
\* zero is reported as no count
PlatformHealth(r) ==
  /\ store[StatefulSetKey(r)] # Absent
  /\ \E st \in {Some([ready_replicas |-> None])} \cup
               {Some([ready_replicas |-> Some(n)]) :
                  n \in 1..Max(store[StatefulSetKey(r)].spec.replicas,
                               ReadyReplicasOf(sts_status[r]))} :
       /\ st # sts_status[r]
       /\ sts_status' = [sts_status EXCEPT ![r] = st]
  /\ UNCHANGED << first, cr, store, pc, cluster, ready, ops, result, action, last,
                  touched, externals >>

ExternalEdit(r) ==
  /\ externals < MaxExternal
  /\ \E k \in SubordinateKeys(r) :
       /\ store[k] # Absent
       /\ store' = [store EXCEPT ![k] = ExternalEditOf(@)]
       /\ touched' = touched \cup {k}
  /\ externals' = externals + 1
  /\ UNCHANGED << first, cr, sts_status, pc, cluster, ready, ops, result, action, last >>

ExternalDelete(r) ==
  /\ externals < MaxExternal
  /\ \E k \in SubordinateKeys(r) :
       /\ store[k] # Absent
       /\ store' = [store EXCEPT ![k] = Absent]
       /\ sts_status' = IF k = StatefulSetKey(r)
                          THEN [sts_status EXCEPT ![r] = None] ELSE sts_status
       /\ touched' = touched \cup {k}
  /\ externals' = externals + 1
  /\ UNCHANGED << first, cr, pc, cluster, ready, ops, result, action, last >>

\* the steps of reconcile and of the controller's error policy
Engine(r) ==
  \/ reconcile_configmap(r)
  \/ reconcile_service(r)
  \/ reconcile_headless_service(r)
  \/ reconcile_statefulset(r)
  \/ update_status_get(r)
  \/ update_status_patch(r)
  \/ error_policy(r)

Harness(r) ==
  \/ Deliver(r)
  \/ Requeue(r)
  \/ Cancel(r)

\* the engine with the spec author and the platform's health reports
Next ==
  \E r \in Resources :
    \/ Engine(r)
    \/ Harness(r)
    \/ EditSpec(r)
    \/ PlatformHealth(r)

Spec == Init /\ [][Next]_vars

\* the engine with the spec author and other writers of the subordinates
NextExt ==
  \E r \in Resources :
    \/ Engine(r)
    \/ Harness(r)
    \/ EditSpec(r)
    \/ ExternalEdit(r)
    \/ ExternalDelete(r)

SpecExt == Init /\ [][NextExt]_vars

(***************************************************************************)
(* The engine on a spec and a health that stay as they are: the live       *)
(* objects are absent or left from an earlier spec, and an observer notes  *)
(* what a complete cycle left before the harness calls again.              *)
(***************************************************************************)
HealthReports ==
  {None, Some([ready_replicas |-> None])}
    \cup {Some([ready_replicas |-> Some(n)]) : n \in 1..MaxReplicas}

StoreOf(spec, name) ==
  [k \in Keys |->
     IF k = ConfigMapKey(name) THEN ConfigMapOf(spec, name)
     ELSE IF k = ServiceKey(name) THEN ServiceOf(spec, name)
     ELSE IF k = HeadlessServiceKey(name) THEN HeadlessServiceOf(spec, name)
     ELSE IF k = StatefulSetKey(name) THEN StatefulSetOf(spec, name)
     ELSE Absent]

InitIdem ==
  /\ cr \in [Names -> {[spec |-> s, status |-> None] : s \in Specs}]
  /\ \A n \in Names \ Resources : cr[n].spec = PlainSpec(0)
  /\ \E r \in Resources :
       \/ /\ store = [k \in Keys |-> Absent]
          /\ sts_status = [n \in Names |-> None]
       \/ /\ \E s \in Specs : store = StoreOf(s, r)
          /\ \E h \in HealthReports : sts_status = [n \in Names |-> IF n = r THEN h ELSE None]
  /\ pc = [n \in Names |-> "idle"]
  /\ cluster = [n \in Names |-> None]
  /\ ready = [n \in Names |-> None]
  /\ ops = [n \in Names |-> <<>>]
  /\ result = [n \in Names |-> "none"]
  /\ action = [n \in Names |-> <<>>]
  /\ last = [n \in Names |-> "Complete"]
  /\ touched = {}
  /\ externals = 0
  /\ first = [n \in Names |-> None]

\* the observer notes the objects and the status a complete cycle left, and
\* the harness takes the directive
Observe(r) ==
  /\ pc[r] = "done"
  /\ result[r] = "Ok"
  /\ first[r] = None
  /\ first' = [first EXCEPT ![r] = Some([store |-> store, status |-> cr[r].status])]
  /\ last' = [last EXCEPT ![r] = "Complete"]
  /\ pc' = [pc EXCEPT ![r] = "idle"]
  /\ cluster' = [cluster EXCEPT ![r] = None]
  /\ ready' = [ready EXCEPT ![r] = None]
  /\ ops' = [ops EXCEPT ![r] = <<>>]
  /\ result' = [result EXCEPT ![r] = "none"]
  /\ action' = [action EXCEPT ![r] = <<>>]
  /\ UNCHANGED << cr, store, sts_status, touched, externals >>

NextIdem ==
  \E r \in Resources :
    \/ Engine(r)
    \/ Harness(r)
    \/ Observe(r)

SpecIdem == InitIdem /\ [][NextIdem]_vars

(***************************************************************************)
(* The engine under a fair harness and a platform that answers: the        *)
(* controller polls every reconcile it started and calls again after each  *)
(* directive, and an operation that is tried again and again is            *)
(* acknowledged again and again.  The spec author, the health reports and  *)
(* cancellation stay free.                                                 *)
(***************************************************************************)
\* the synthesizer over every spec of the option sets: the first spec of a
\* behaviour is any of AllSpecs, the engine runs its cycles on it, and the
\* author may edit it between any two steps
InitSynth ==
  /\ cr \in [Names -> {[spec |-> s, status |-> None] : s \in AllSpecs}]
  /\ \A n \in Names \ Resources : cr[n].spec = PlainSpec(0)
  /\ store = [k \in Keys |-> Absent]
  /\ sts_status = [n \in Names |-> None]
  /\ pc = [n \in Names |-> "idle"]
  /\ cluster = [n \in Names |-> None]
  /\ ready = [n \in Names |-> None]
  /\ ops = [n \in Names |-> <<>>]
  /\ result = [n \in Names |-> "none"]
  /\ action = [n \in Names |-> <<>>]
  /\ last = [n \in Names |-> "Complete"]
  /\ touched = {}
  /\ externals = 0
  /\ first = [n \in Names |-> None]

NextSynth ==
  \E r \in Resources :
    \/ Engine(r)
    \/ Harness(r)
    \/ EditSpec(r)

SpecSynth == InitSynth /\ [][NextSynth]_vars

\* two resources of one namespace, reconciled concurrently: the harness
\* runs one reconcile per resource at a time and interleaves the steps of
\* reconciles of distinct resources
NextPair ==
  \E r \in Names :
    \/ Engine(r)
    \/ Harness(r)

SpecPair == Init /\ [][NextPair]_vars

\* the step `step` of a cycle of r is acknowledged
Acknowledged(r, step) ==
  /\ pc[r] = step
  /\ Engine(r)
  /\ result'[r] # "Err"

Fairness ==
  \A r \in Resources :
    /\ WF_vars(Deliver(r))
    /\ WF_vars(Requeue(r))
    /\ WF_vars(Engine(r))
    /\ \A step \in InFlight : SF_vars(Acknowledged(r, step))

NextLive ==
  \E r \in Resources :
    \/ Engine(r)
    \/ Harness(r)
    \/ EditSpec(r)

\* the controller starts on a cluster with no objects yet, or with the
\* objects of the live spec and some health report on the replica group
InitLive ==
  /\ InitIdem
  /\ \A r \in Resources :
       store[StatefulSetKey(r)] # Absent => store = StoreOf(cr[r].spec, r)

SpecLive == InitLive /\ [][NextLive]_vars /\ Fairness

(***************************************************************************)
(* The claims.                                                             *)
(***************************************************************************)
\* the platform operations of one cycle for the resource `name`, in order
CycleOrder(name) ==
  << << "apply", "ConfigMap", name \o "-config" >>,
     << "apply", "Service", name >>,
     << "apply", "Service", name \o "-headless" >>,
     << "apply", "StatefulSet", name >>,
     << "get", "StatefulSet", name >>,
     << "patch_status", "ShazamqCluster", name >> >>

Succeeded(r) == pc[r] = "done" /\ result[r] = "Ok"

\* C1: the operations a cycle has issued are always an initial part of the
\* fixed order apply config, apply client endpoint, apply discovery
\* endpoint, apply replica group, read replica group, apply status: none is
\* reordered or repeated, and each but the latest was acknowledged.
C1_FixedOrder ==
  \A r \in Names :
    /\ Len(ops[r]) <= Len(CycleOrder(r))
    /\ \A i \in 1..Len(ops[r]) :
         /\ << ops[r][i].verb, ops[r][i].kind, ops[r][i].name >> = CycleOrder(r)[i]
         /\ i < Len(ops[r]) => ops[r][i].ok

\* a cycle that issued all six operations with success
C1_Witness ==
  \E r \in Resources :
    /\ Len(ops[r]) = 6
    /\ \A i \in 1..6 : ops[r][i].ok

\* C2 (state part): a failed operation is the last one the cycle issues, the
\* cycle returns an error and has not written the status.
C2_AbortsAtFailure ==
  \A r \in Names :
    (\E i \in 1..Len(ops[r]) : ~ops[r][i].ok) =>
       /\ ~ops[r][Len(ops[r])].ok
       /\ \A i \in 1..(Len(ops[r]) - 1) : ops[r][i].ok
       /\ result[r] = "Err"
       /\ pc[r] \in {"returned", "done"}
       /\ \A i \in 1..Len(ops[r]) : ~(ops[r][i].verb = "patch_status" /\ ops[r][i].ok)

\* C2 (step part): the step in which a cycle fails, and every later step of
\* that cycle, leaves the subordinate objects and the status as they are.
C2_NoRollbackStep ==
  \A r \in Resources :
    (result[r] = "Err" \/ result'[r] = "Err") =>
       /\ store' = store
       /\ cr'[r].status = cr[r].status

\* C2: if a step of a cycle fails, no later operation is issued in that
\* cycle, the cycle returns an error, the objects applied before stay as
\* applied, and the status is not written.
C2_FailureAborts == [](C2_AbortsAtFailure) /\ [][C2_NoRollbackStep]_vars

\* a cycle whose health read failed after the four applies
C2_Witness ==
  \E r \in Resources :
    /\ result[r] = "Err"
    /\ Applied(r) = 4
    /\ ops[r][Len(ops[r])].verb = "get"

\* C3: a cycle that has ended carries exactly one directive, 300 s when
\* all steps succeeded and 60 s when one failed; before its end it carries
\* none; no operation is issued twice in a cycle.
C3_OneDirective ==
  \A r \in Names :
    /\ pc[r] = "done" => /\ result[r] \in {"Ok", "Err"}
                         /\ action[r] = IF result[r] = "Ok" THEN << 300 >> ELSE << 60 >>
    /\ pc[r] # "done" => action[r] = <<>>
    /\ result[r] = "Ok" <=> (Len(ops[r]) = 6 /\ \A i \in 1..6 : ops[r][i].ok)
    /\ \A i, j \in 1..Len(ops[r]) :
         i # j => << ops[r][i].verb, ops[r][i].kind, ops[r][i].name >>
                    # << ops[r][j].verb, ops[r][j].kind, ops[r][j].name >>

\* a failed cycle that got the 60 s directive
C3_Witness ==
  \E r \in Resources :
    /\ pc[r] = "done"
    /\ result[r] = "Err"
    /\ action[r] = << 60 >>

\* C4: in a written status with 0 <= readyReplicas <= replicas the phase is
\* Running iff they are equal, Creating iff readyReplicas = 0 < replicas,
\* and Updating iff 0 < readyReplicas < replicas.
C4_PhaseTable ==
  \A r \in Names :
    IsSome(cr[r].status) =>
      LET st == Unwrap(cr[r].status)
          n == Unwrap(st.replicas)
          k == Unwrap(st.ready_replicas)
          phase == Unwrap(st.phase)
      IN (0 <= k /\ k <= n) =>
           /\ phase = "Running" <=> k = n
           /\ phase = "Creating" <=> (k = 0 /\ n > 0)
           /\ phase = "Updating" <=> (0 < k /\ k < n)

\* a written status with 0 < readyReplicas < replicas
C4_Witness ==
  \E r \in Resources :
    /\ IsSome(cr[r].status)
    /\ Unwrap(Unwrap(cr[r].status).ready_replicas) > 0
    /\ Unwrap(Unwrap(cr[r].status).ready_replicas) < Unwrap(Unwrap(cr[r].status).replicas)

\* C5: in every written status readyReplicas <= replicas.
C5_ReadyAtMostReplicas ==
  \A r \in Names :
    IsSome(cr[r].status) =>
      Unwrap(Unwrap(cr[r].status).ready_replicas) <= Unwrap(Unwrap(cr[r].status).replicas)

\* C6: the pod template of every applied replica group carries app=shazamq
\* and shazamq.io/cluster=N, so the group's selector matches its template.
C6_SelectorLabelsKept ==
  \A r \in Names :
    LET sts == store[StatefulSetKey(r)] IN
      (sts # Absent /\ StatefulSetKey(r) \notin touched) =>
        /\ "app" \in DOMAIN sts.spec.template.labels
        /\ sts.spec.template.labels["app"] = "shazamq"
        /\ "shazamq.io/cluster" \in DOMAIN sts.spec.template.labels
        /\ sts.spec.template.labels["shazamq.io/cluster"] = r
        /\ \A k \in DOMAIN sts.spec.selector :
             /\ k \in DOMAIN sts.spec.template.labels
             /\ sts.spec.template.labels[k] = sts.spec.selector[k]

\* the verbs the platform client offers to the engine's code
EngineVerbs == {"apply", "get", "patch_status"}

\* C7 (state part): every operation a cycle issues is an apply, a get or a
\* status patch, and an acknowledged apply of the replica group leaves it
\* existing with the size of the delivered spec, a size of 0 included.
C7_OnlyApplyGetPatch ==
  \A r \in Names :
    /\ \A i \in 1..Len(ops[r]) : ops[r][i].verb \in EngineVerbs
    /\ (pc[r] = "get_statefulset" /\ StatefulSetKey(r) \notin touched) =>
          /\ store[StatefulSetKey(r)] # Absent
          /\ store[StatefulSetKey(r)].spec.replicas = Unwrap(cluster[r]).spec.replicas

\* C7 (step part): a live object stops existing only in a step of an
\* external actor, and the parent resources stay.
C7_OnlyExternalRemoves ==
  /\ DOMAIN cr' = DOMAIN cr
  /\ \A k \in Keys :
       (store[k] # Absent /\ store'[k] = Absent) =>
          /\ externals' = externals + 1
          /\ k \in touched'
          /\ UNCHANGED << pc, ops >>

\* C7: the engine never deletes: it issues only apply, get and status
\* patch, an object it created exists until an external actor removes it,
\* and a smaller spec.replicas only becomes a smaller size of the group.
C7_NeverDeletes == [](C7_OnlyApplyGetPatch) /\ [][C7_OnlyExternalRemoves]_vars

\* a cycle has applied size 0 to a replica group whose resource still
\* shows the status of a larger size
C7_Witness ==
  \E r \in Resources :
    /\ pc[r] = "get_statefulset"
    /\ Unwrap(cluster[r]).spec.replicas = 0
    /\ IsSome(cr[r].status)
    /\ Unwrap(Unwrap(cr[r].status).replicas) > 0
    /\ store[StatefulSetKey(r)] # Absent
    /\ store[StatefulSetKey(r)].spec.replicas = 0
    /\ \A k \in SubordinateKeys(r) : store[k] # Absent

\* what status a cycle on `spec` that reads `ready_replicas` writes
StatusOf(spec, ready_replicas) ==
  [phase |-> Some(IF ready_replicas = spec.replicas THEN "Running"
                  ELSE IF ready_replicas > 0 THEN "Updating" ELSE "Creating"),
   replicas |-> Some(spec.replicas),
   ready_replicas |-> Some(ready_replicas),
   conditions |-> None,
   brokers |-> None]

\* C8 (state part): a cycle that succeeds after an interrupted one leaves
\* the four objects and the status as a cycle on the same spec and the same
\* ready count leaves them when nothing was applied before.
C8_SameAsUninterrupted ==
  \A r \in Resources :
    (Succeeded(r) /\ last[r] = "Interrupted") =>
       /\ \A k \in SubordinateKeys(r) :
            store[k] = StoreOf(Unwrap(cluster[r]).spec, r)[k]
       /\ cr[r].status = Some(StatusOf(Unwrap(cluster[r]).spec, Unwrap(ready[r])))

\* C8 (step part): the step that fails or cancels a cycle leaves the
\* objects applied so far as they are.
C8_InterruptKeeps ==
  \A r \in Resources :
    (pc[r] \in InFlight /\ pc'[r] \in {"idle", "returned"}) =>
       /\ store' = store
       /\ cr' = cr

\* C8: a cancelled or failed cycle leaves its partial objects, and the next
\* successful cycle ends in the state of an uninterrupted one.
C8_Recovers == [](C8_SameAsUninterrupted) /\ [][C8_InterruptKeeps]_vars

\* a cycle succeeded after a cycle that was interrupted part-way
C8_Witness ==
  \E r \in Resources :
    /\ Succeeded(r)
    /\ last[r] = "Interrupted"

\* C9: with the spec and the ready count unchanged, the objects and the
\* status that a complete cycle left stay exactly so through every later
\* cycle.
C9_Idempotent ==
  \A r \in Resources :
    IsSome(first[r]) =>
      /\ store = Unwrap(first[r]).store
      /\ cr[r].status = Unwrap(first[r]).status

\* a later cycle has completed after the observed one
C9_Witness ==
  \E r \in Resources :
    /\ IsSome(first[r])
    /\ Succeeded(r)
    /\ Unwrap(Unwrap(cr[r].status).ready_replicas) > 0

\* C10: when a cycle has succeeded, each subordinate object that no
\* external actor wrote after the cycle applied it equals the descriptor of
\* the delivered spec; between cycles the engine holds nothing.
C10_EqualsDescriptor ==
  \A r \in Resources :
    /\ Succeeded(r) =>
         \A k \in SubordinateKeys(r) \ touched :
           store[k] = StoreOf(Unwrap(cluster[r]).spec, r)[k]
    /\ pc[r] = "idle" =>
         (cluster[r] = None /\ ready[r] = None /\ ops[r] = <<>> /\ result[r] = "none")

\* a cycle on the full-featured spec succeeded after an external actor had
\* written an object, and no external write is left standing
C10_Witness ==
  \E r \in Resources :
    /\ Succeeded(r)
    /\ externals > 0
    /\ touched = {}
    /\ Unwrap(cluster[r]).spec = FullSpec(MaxReplicas)

\* the status shows the projection of the replica count of `spec` and of
\* the ready count it records
Projects(r, spec) ==
  /\ IsSome(cr[r].status)
  /\ cr[r].status =
       Some(StatusOf(spec, Unwrap(Unwrap(cr[r].status).ready_replicas)))

StatusFields == {"phase", "replicas", "ready_replicas", "conditions", "brokers"}

\* C12: the status a successful cycle leaves is the table's value for the
\* replica count of the delivered spec and the ready count the cycle read,
\* whatever the status was before; every written status has all its fields
\* set anew, with no conditions and no brokers.
C12_Memoryless ==
  \A r \in Names :
    /\ Succeeded(r) =>
         cr[r].status = Some(StatusOf(Unwrap(cluster[r]).spec, Unwrap(ready[r])))
    /\ IsSome(cr[r].status) =>
         /\ DOMAIN Unwrap(cr[r].status) = StatusFields
         /\ Unwrap(cr[r].status).conditions = None
         /\ Unwrap(cr[r].status).brokers = None

\* a cycle wrote Creating for a group that an earlier cycle had seen ready:
\* the health has moved since the cycle read it
C12_Witness ==
  \E r \in Resources :
    /\ Succeeded(r)
    /\ last[r] = "Complete"
    /\ Unwrap(cr[r].status).phase = Some("Creating")
    /\ ReadyReplicasOf(sts_status[r]) = Unwrap(cluster[r]).spec.replicas

\* C13: a successful cycle delivered a spec with replicas = 0 has written
\* phase Running with readyReplicas 0.
C13_ZeroIsRunning ==
  \A r \in Resources :
    Succeeded(r) /\ Unwrap(cluster[r]).spec.replicas = 0 =>
      /\ Unwrap(cr[r].status).phase = Some("Running")
      /\ Unwrap(cr[r].status).ready_replicas = Some(0)

\* the objects a cycle for the resource named n may write
NamedFor(n) ==
  { << "ConfigMap", n \o "-config" >>, << "Service", n >>,
    << "Service", n \o "-headless" >>, << "StatefulSet", n >> }

\* operation i of the running cycle comes after an acknowledged apply of key
AppliedBefore(r, i, key) ==
  \E j \in 1..(i - 1) :
    /\ ops[r][j].verb = "apply" /\ ops[r][j].ok
    /\ << ops[r][j].kind, ops[r][j].name >> = key

\* C14: a cycle for resource N applies only N-config, N, N-headless and the
\* replica group N, in the resource's namespace; the replica group in the
\* store names N-config as its config volume and N-headless as its discovery
\* endpoint; and every apply of the replica group comes after acknowledged
\* applies of N-config and N-headless in the same cycle.
C14_NamesAndOrder ==
  \A r \in Resources :
    /\ \A i \in 1..Len(ops[r]) :
         /\ ops[r][i].verb = "apply" =>
              << ops[r][i].kind, ops[r][i].name >> \in NamedFor(r)
         /\ ops[r][i].verb = "apply" /\ ops[r][i].kind = "StatefulSet" =>
              /\ AppliedBefore(r, i, << "ConfigMap", r \o "-config" >>)
              /\ AppliedBefore(r, i, << "Service", r \o "-headless" >>)
    /\ \A key \in NamedFor(r) :
         store[key] # Absent =>
           /\ store[key].kind = key[1] /\ store[key].name = key[2]
           /\ store[key].namespace = Namespace
    /\ store[<< "StatefulSet", r >>] # Absent =>
         /\ store[<< "StatefulSet", r >>].spec.service_name = r \o "-headless"
         /\ \E i \in 1..Len(store[<< "StatefulSet", r >>].spec.template.volumes) :
              store[<< "StatefulSet", r >>].spec.template.volumes[i].config_map
                = r \o "-config"
         /\ store[<< "Service", r \o "-headless" >>] # Absent
         /\ store[<< "ConfigMap", r \o "-config" >>] # Absent

\* the replica group has just been applied, as the fourth apply of its cycle
C14_Witness ==
  \E r \in Resources :
    /\ pc[r] = "get_statefulset"
    /\ Len(ops[r]) = 4
    /\ ops[r][4] = Op("apply", "StatefulSet", r, TRUE)
    /\ store[<< "StatefulSet", r >>] = StatefulSetOf(Unwrap(cluster[r]).spec, r)

\* the lines that open a section or a block of the config text
SectionHeaders ==
  {"[broker]", "[storage]", "[metrics]", "[tiered_storage]",
   "[tiered_storage.s3]", "[mirror]", "[[mirror.sources]]"}

IsHeader(line) == line \in SectionHeaders

\* the section and block headers of a text, in the order they appear
HeadersOf(text) == SelectSeq(text, IsHeader)

\* the positions of the source blocks of a text, in increasing order
IsBlockStart(text, i) == text[i] = "[[mirror.sources]]"
BlockStarts(text) ==
  LET at == {i \in 1..Len(text) : IsBlockStart(text, i)}
  IN [k \in 1..Cardinality(at) |->
        CHOOSE i \in at : Cardinality({j \in at : j < i}) = k - 1]

\* the whitelist line of a source with at most two topics
WhitelistLine(topics) ==
  "topic_whitelist = ["
    \o (IF Len(topics) >= 1 THEN "\"" \o topics[1] \o "\"" ELSE "")
    \o (IF Len(topics) >= 2 THEN ", \"" \o topics[2] \o "\"" ELSE "")
    \o "]"

TieredOn(spec) == IsSome(spec.tiered_storage) /\ Unwrap(spec.tiered_storage).enabled
MirrorOn(spec) == IsSome(spec.mirror) /\ Unwrap(spec.mirror).enabled

\* what C15 says of the text made from a spec
SectionsAsSpecified(text, spec) ==
  LET headers == HeadersOf(text)
      sources == IF MirrorOn(spec) THEN Unwrap(spec.mirror).sources ELSE <<>>
      starts == BlockStarts(text)
  IN /\ headers =
          << "[broker]", "[storage]", "[metrics]" >>
          \o (IF TieredOn(spec) THEN << "[tiered_storage]" >> ELSE <<>>)
          \o (IF TieredOn(spec) /\ IsSome(Unwrap(spec.tiered_storage).s3)
                THEN << "[tiered_storage.s3]" >> ELSE <<>>)
          \o (IF MirrorOn(spec) THEN << "[mirror]" >> ELSE <<>>)
          \o [k \in 1..Len(sources) |-> "[[mirror.sources]]"]
     /\ (\E i \in 1..Len(text) : text[i] = "[tiered_storage]") <=> TieredOn(spec)
     /\ (\E i \in 1..Len(text) : text[i] = "[mirror]") <=> MirrorOn(spec)
     /\ Len(starts) = Len(sources)
     /\ \A k \in 1..Len(sources) :
          /\ text[starts[k] + 1] = "name = \"" \o sources[k].name \o "\""
          /\ text[starts[k] + 5] = WhitelistLine(sources[k].topic_whitelist)

\* C15: the config text of every applied config artifact has its sections
\* in the order network/identity, storage, metrics, tiered storage, mirror;
\* the tiered-storage section is there iff tieredStorage is present and
\* enabled; the mirror section is there iff mirror is present and enabled,
\* with one source block per source, in list order, topics in list order.
C15_SectionsInOrder ==
  \A r \in Resources :
    pc[r] \in InFlight \ {"configmap"} =>
      SectionsAsSpecified(store[ConfigMapKey(r)].data["config.toml"],
                          Unwrap(cluster[r]).spec)

\* a text with both mirror sources, made while tieredStorage is present
\* but not enabled
C15_Witness ==
  \E r \in Resources :
    /\ pc[r] = "service"
    /\ IsSome(Unwrap(cluster[r]).spec.tiered_storage)
    /\ ~TieredOn(Unwrap(cluster[r]).spec)
    /\ MirrorOn(Unwrap(cluster[r]).spec)
    /\ Len(BlockStarts(store[ConfigMapKey(r)].data["config.toml"])) = 2

\* the replica group carries the mirroring feature flag in its environment
HasMirrorFlag(statefulset) ==
  \E i \in 1..Len(statefulset.spec.template.container.env) :
    statefulset.spec.template.container.env[i].name = "SHAZAMQ_MIRROR_ENABLED"

HasMirrorSection(configmap) ==
  \E i \in 1..Len(configmap.data["config.toml"]) :
    configmap.data["config.toml"][i] = "[mirror]"

\* C16: the replica group a cycle applied has the mirror flag iff the
\* delivered spec has mirror present and enabled; after a successful cycle
\* the replica group has the flag exactly when the config artifact has the
\* mirror section.
C16_FlagIffMirror ==
  \A r \in Resources :
    /\ pc[r] \in {"get_statefulset", "patch_status"} \/ Succeeded(r) =>
         (HasMirrorFlag(store[StatefulSetKey(r)]) <=> MirrorOn(Unwrap(cluster[r]).spec))
    /\ Succeeded(r) =>
         (HasMirrorFlag(store[StatefulSetKey(r)])
            <=> HasMirrorSection(store[ConfigMapKey(r)]))

\* a successful cycle on a spec whose mirror is present but not enabled,
\* while the live spec has been edited to another one
C16_Witness ==
  \E r \in Resources :
    /\ Succeeded(r)
    /\ IsSome(Unwrap(cluster[r]).spec.mirror)
    /\ ~MirrorOn(Unwrap(cluster[r]).spec)
    /\ MirrorOn(cr[r].spec)
    /\ ~HasMirrorFlag(store[StatefulSetKey(r)])

\* C17: the cycles of two distinct resources of one namespace never apply
\* to the same subordinate object (same kind and same name).
C17_DisjointObjects ==
  \A r1, r2 \in Names :
    r1 # r2 =>
      \A i \in 1..Len(ops[r1]), j \in 1..Len(ops[r2]) :
        ops[r1][i].verb = "apply" /\ ops[r2][j].verb = "apply" =>
          << ops[r1][i].kind, ops[r1][i].name >> # << ops[r2][j].kind, ops[r2][j].name >>

\* C18: after a successful cycle the replicas of the status and the size of
\* the applied replica group both equal spec.replicas of the delivered
\* snapshot, whatever the live spec has become meanwhile.
C18_SnapshotReplicas ==
  \A r \in Resources :
    Succeeded(r) =>
      /\ Unwrap(cr[r].status).replicas = Some(Unwrap(cluster[r]).spec.replicas)
      /\ store[StatefulSetKey(r)].spec.replicas = Unwrap(cluster[r]).spec.replicas
      /\ Unwrap(cr[r].status).replicas = Some(store[StatefulSetKey(r)].spec.replicas)

\* a successful cycle whose live spec now asks for another size
C18_Witness ==
  \E r \in Resources :
    /\ Succeeded(r)
    /\ cr[r].spec.replicas # Unwrap(cluster[r]).spec.replicas
    /\ store[StatefulSetKey(r)].spec.replicas > 0

ApplySteps == {"configmap", "service", "headless_service", "statefulset"}

\* the operation log never holds a write of the parent resource other than
\* a status patch that follows five acknowledged operations
C19_StatusPatchIsLast ==
  \A r \in Resources :
    \A i \in 1..Len(ops[r]) :
      ops[r][i].kind = "ShazamqCluster" =>
        /\ ops[r][i].verb = "patch_status"
        /\ i = 6 /\ i = Len(ops[r])
        /\ \A j \in 1..(i - 1) : ops[r][j].ok

\* a step of a cycle leaves the spec alone, a subordinate apply leaves the
\* whole parent alone, and the status changes only in the last step
C19_ParentFrame ==
  \A r \in Resources :
    /\ pc'[r] # pc[r] => cr'[r].spec = cr[r].spec
    /\ pc[r] \in ApplySteps /\ pc'[r] # pc[r] => cr'[r] = cr[r]
    /\ cr'[r].status # cr[r].status =>
         /\ pc[r] = "patch_status" /\ Succeeded(r)'
         /\ ops'[r][Len(ops'[r])] = Op("patch_status", "ShazamqCluster", r, TRUE)

\* C19: a cycle never changes the resource's spec; of the parent it writes
\* only the status, as the last operation of a cycle whose earlier steps
\* all succeeded; the four subordinate applies leave the parent unchanged.
C19_OnlyStatusLast == [](C19_StatusPatchIsLast) /\ [][C19_ParentFrame]_vars

\* a cycle delivered the plain empty spec has written its status while the
\* live spec is the full-featured one
C19_Witness ==
  \E r \in Resources :
    /\ Succeeded(r)
    /\ Unwrap(cluster[r]).spec = PlainSpec(0)
    /\ cr[r].spec = FullSpec(MaxReplicas)
    /\ Unwrap(cr[r].status).replicas = Some(0)

\* the replica group reports no status, or a status with no ready count
NoHealth(status) == ~IsSome(status) \/ ~IsSome(Unwrap(status).ready_replicas)

FailedGet(r) == Op("get", "StatefulSet", r, FALSE)

\* a failed read of the replica group is the last operation of its cycle,
\* which fails; a status written from a ready count of 0 has readyReplicas
\* 0, and phase Creating when replicas > 0
C20_ReadOutcomes ==
  \A r \in Resources :
    /\ \A i \in 1..Len(ops[r]) :
         ops[r][i] = FailedGet(r) =>
           /\ i = Len(ops[r])
           /\ pc[r] \in {"returned", "done"} /\ result[r] = "Err"
           /\ pc[r] = "done" => action[r] = << RequeueErr >>
    /\ Succeeded(r) /\ ready[r] = Some(0) =>
         /\ Unwrap(cr[r].status).ready_replicas = Some(0)
         /\ Unwrap(cluster[r]).spec.replicas > 0 =>
              Unwrap(cr[r].status).phase = Some("Creating")

\* a read of a group without health gives 0; a cycle whose read failed
\* writes no status in that step nor in the error policy's
C20_ReadStep ==
  \A r \in Resources :
    /\ pc[r] = "get_statefulset" /\ pc'[r] = "patch_status" /\ NoHealth(sts_status[r]) =>
         ready'[r] = Some(0)
    /\ pc[r] = "get_statefulset" /\ pc'[r] = "returned" =>
         /\ ops'[r][Len(ops'[r])] = FailedGet(r)
         /\ cr'[r] = cr[r]
    /\ pc[r] = "returned" /\ pc'[r] = "done" => cr'[r] = cr[r]

\* C20: a replica group that exists but reports no status or no ready
\* count is read as 0 ready, so the status written has readyReplicas 0 and,
\* when replicas > 0, phase Creating; when the replica group cannot be read
\* the cycle fails, writes no status, and gets the 60 s directive.
C20_MissingHealthAndRead == [](C20_ReadOutcomes) /\ [][C20_ReadStep]_vars

\* a group reporting a status without a ready count has been read as 0 and
\* Creating has been written for a spec of positive size
C20_Witness ==
  \E r \in Resources :
    /\ Succeeded(r)
    /\ sts_status[r] = Some([ready_replicas |-> None])
    /\ ready[r] = Some(0)
    /\ Unwrap(cluster[r]).spec.replicas > 0
    /\ Unwrap(cr[r].status).phase = Some("Creating")

====
